---- MODULE Spec2Model ----
(***************************************************************************)
(* The two example scripts of the repository as one state machine:        *)
(*   xdawn_denoising.py          (script = "xdawn")                       *)
(*   volume_stc_group_study.py   (script = "group")                       *)
(* A run executes one script top to bottom, one statement per step.  A    *)
(* library call may raise; no statement of either script is inside a      *)
(* try block.                                                             *)
(***************************************************************************)
EXTENDS Integers, Sequences, FiniteSets, TLC

VARIABLES script, pc, err, log, deleted, eventFile,
          raw, events, epochs, xd, epochs_denoised, shown,
          sub, ica, epochs_tfr, baseline_csd, baseline_cov,
          inverse_operator, freq_it, freq_idx, stcs,
          stcs_tfr, stcs_epochs, insts_tfr, insts_epochs, viewers

vars == <<script, pc, err, log, deleted, eventFile,
          raw, events, epochs, xd, epochs_denoised, shown,
          sub, ica, epochs_tfr, baseline_csd, baseline_cov,
          inverse_operator, freq_it, freq_idx, stcs,
          stcs_tfr, stcs_epochs, insts_tfr, insts_epochs, viewers>>

xdVars   == <<xd, epochs_denoised, shown>>
invVars  == <<epochs_tfr, baseline_csd, baseline_cov, inverse_operator,
              freq_it, freq_idx, stcs>>
listVars == <<stcs_tfr, stcs_epochs, insts_tfr, insts_epochs>>

\* ---------------------------------------------------------------- bounds
MaxEvents == 3      \* longest event file explored
MaxCode   == 5      \* event codes 1..MaxCode may occur in the event file

\* ------------------------------------------------------ program constants
NSubjects == 3      \* for sub in range(1, 4)
NFreqs    == 9      \* np.logspace(np.log10(12), np.log10(30), 9)

\* event_id = dict(vis_r=4)
xdawn_event_id == [vis_r |-> 4]

\* event_id = dict(hands=2, feet=3)
group_event_id == [hands |-> 2, feet |-> 3]

None == [kind |-> "None"]

Range(s) == {s[i] : i \in DOMAIN s}

\* --------------------------------------------------------- program text
XdawnScriptEpochsFirst ==
    <<"read_raw_fif", "read_events", "set_bads", "pick_types", "Epochs",
      "raw_filter", "plot_epochs_image_before", "compute_raw_covariance",
      "Xdawn", "xd_fit", "xd_apply", "plot_epochs_image_after">>

XdawnScript ==
    <<"read_raw_fif", "raw_filter", "read_events", "set_bads", "pick_types",
      "Epochs", "plot_epochs_image_before", "compute_raw_covariance",
      "Xdawn", "xd_fit", "xd_apply", "plot_epochs_image_after">>

GroupHead ==
    <<"fetch_fsaverage", "read_source_spaces", "read_bem_solution",
      "make_standard_montage", "init_lists">>

SubjectBody ==
    <<"load_data", "read_raw", "standardize", "set_montage",
      "events_from_annotations", "g_pick_types", "g_Epochs", "del_raw",
      "set_eeg_reference", "get_rejection_threshold", "drop_bad",
      "epochs_filter", "ICA", "ica_fit", "find_bads_eog", "find_bads_muscle",
      "ica_apply", "make_forward_solution", "compute_rank", "logspace",
      "tfr_morlet", "csd_tfr", "tfr_decimate", "append_insts_tfr",
      "epochs_decimate", "append_insts_epochs", "compute_covariance",
      "make_inverse_operator", "append_stcs_epochs", "stcs_list",
      "iter_freqs">>

FreqBody == <<"get_data", "real", "make_inverse_operator_freq">>

AfterFreq == <<"apply_inverse_tfr_epochs", "append_stcs_tfr">>

GroupTail ==
    <<"view_vol_stc_1", "go_to_extreme_1", "set_cmap_1", "set_3d_view_1",
      "del_epochs_lists", "view_vol_stc_2", "go_to_extreme_2", "set_cmap_2",
      "set_3d_view_2", "del_tfr_lists">>

\* the statement after l inside block seq; last when l closes the block
Follow(seq, l, last) ==
    LET i == CHOOSE j \in DOMAIN seq : seq[j] = l
    IN  IF i = Len(seq) THEN last ELSE seq[i + 1]

\* straight-line successor of statement l (loop headers decide themselves)
NextLabel(l) ==
    IF l \in Range(XdawnScript) THEN Follow(XdawnScript, l, "done")
    ELSE IF l \in Range(GroupHead) THEN Follow(GroupHead, l, "for_sub")
    ELSE IF l \in Range(SubjectBody) THEN Follow(SubjectBody, l, "for_freq")
    ELSE IF l \in Range(FreqBody) THEN Follow(FreqBody, l, "for_freq")
    ELSE IF l \in Range(AfterFreq) THEN Follow(AfterFreq, l, "for_sub")
    ELSE IF l \in Range(GroupTail) THEN Follow(GroupTail, l, "done")
    ELSE "done"

\* statements that only bind or drop names and cannot raise
PlainStatements ==
    {"init_lists", "del_raw", "stcs_list", "append_insts_tfr",
     "append_insts_epochs", "append_stcs_tfr", "del_epochs_lists",
     "del_tfr_lists", "iter_freqs", "for_sub", "for_freq", "done",
     "failed"}

AllLabels ==
    Range(XdawnScript) \cup Range(GroupHead) \cup Range(SubjectBody)
      \cup Range(FreqBody) \cup Range(AfterFreq) \cup Range(GroupTail)

\* statements that call into the library
Raising == AllLabels \ PlainStatements

\* library calls whose results no later statement of the model inspects
OpaqueCalls ==
    {"set_bads", "pick_types", "compute_raw_covariance",
     "fetch_fsaverage", "read_source_spaces", "read_bem_solution",
     "make_standard_montage", "load_data", "standardize", "set_montage",
     "events_from_annotations", "g_pick_types", "set_eeg_reference",
     "get_rejection_threshold", "drop_bad", "find_bads_eog",
     "find_bads_muscle", "make_forward_solution", "compute_rank", "logspace",
     "go_to_extreme_1", "set_cmap_1", "set_3d_view_1",
     "go_to_extreme_2", "set_cmap_2", "set_3d_view_2"}

\* where control goes when the statement at l raises and the handler
\* swallows the exception
OnErrorContinue(l) == NextLabel(l)

\* where control goes when the statement at l raises: nothing catches it
OnError(l) == "failed"

\* ------------------------------------------------------- library values
EventFiles == UNION {[1..n -> 1..MaxCode] : n \in 0..MaxEvents}

RECURSIVE KeepIdx(_, _, _)
\* the elements of s at the positions in K, from position i on, in order
KeepIdx(s, K, i) ==
    IF i > Len(s) THEN <<>>
    ELSE IF i \in K THEN <<s[i]>> \o KeepIdx(s, K, i + 1)
    ELSE KeepIdx(s, K, i + 1)

\* Epochs(raw, events): no event_id given, every event becomes an epoch
MatchAllEvents(evs, event_id) == evs

\* Epochs(raw, events, event_id, ...): only events whose code is a value of
\* event_id become epochs
MatchEvents(evs, event_id) ==
    SelectSeq(evs, LAMBDA c : \E n \in DOMAIN event_id : event_id[n] = c)

\* epochs["name"]: the epochs whose event code is event_id["name"]
Select(ep, name) ==
    SelectSeq(ep.codes, LAMBDA c : c = ep.event_id[name])

NewEpochs(s, codes, event_id, r) ==
    [kind |-> "Epochs", sub |-> s, codes |-> codes, event_id |-> event_id,
     raw_filtered |-> r.filtered, filtered |-> FALSE, decimated |-> FALSE,
     cleaned |-> FALSE]

\* Xdawn(n_components=3, ...)
NewXdawnThree ==
    [kind |-> "Xdawn", n_components |-> 3, fitted |-> FALSE,
     event_id_ |-> xdawn_event_id]

\* Xdawn(n_components=2, signal_cov=signal_cov)
NewXdawn ==
    [kind |-> "Xdawn", n_components |-> 2, fitted |-> FALSE,
     event_id_ |-> xdawn_event_id]

NoInclude == [given |-> FALSE, comps |-> {}]

\* xd.apply(inst, include=...): one denoised Epochs per event type seen in
\* fit, rebuilt from the retained components; without include the first
\* n_components are retained
XdawnApply(x, inst, include) ==
    [n \in DOMAIN x.event_id_ |->
        [kind |-> "Epochs", sub |-> inst.sub, codes |-> Select(inst, n),
         event_id |-> inst.event_id,
         kept |-> IF include.given THEN include.comps
                  ELSE 0 .. (x.n_components - 1),
         fitted_at_apply |-> x.fitted]]

\* ---------------------------------------------------------------- Init
Init ==
    /\ script \in {"xdawn", "group"}
    /\ pc = IF script = "xdawn" THEN XdawnScript[1] ELSE GroupHead[1]
    /\ eventFile \in (IF script = "xdawn" THEN EventFiles ELSE {<<>>})
    /\ err = "" /\ log = <<>> /\ deleted = {}
    /\ raw = None /\ events = <<>> /\ epochs = None
    /\ xd = None /\ epochs_denoised = None /\ shown = <<>>
    /\ sub = 0 /\ ica = None /\ epochs_tfr = None /\ baseline_csd = None
    /\ baseline_cov = None /\ inverse_operator = None /\ freq_it = 0
    /\ freq_idx = 0
    /\ stcs = None
    /\ stcs_tfr = <<>> /\ stcs_epochs = <<>> /\ insts_tfr = <<>>
    /\ insts_epochs = <<>> /\ viewers = <<>>

\* ------------------------------------------------------- control helpers
At(l) == pc = l

\* the statement ran to completion: record it and move to the next one
Advance ==
    /\ pc' = NextLabel(pc)
    /\ log' = Append(log, [fn |-> pc, sub |-> sub])
    /\ UNCHANGED <<script, eventFile, err>>

\* a library call raises; the exception propagates to the top level
Raise ==
    /\ pc \in Raising
    /\ err' = pc
    /\ pc' = OnError(pc)
    /\ UNCHANGED <<script, eventFile, log, deleted, raw, events, epochs,
                   xdVars, sub, ica, invVars, listVars, viewers>>

\* a library call whose result the model does not track returns
LibraryCall ==
    /\ pc \in OpaqueCalls
    /\ Advance
    /\ UNCHANGED <<deleted, raw, events, epochs, xdVars, sub, ica, invVars,
                   listVars, viewers>>

\* ------------------------------------------------- xdawn_denoising.py
read_raw_fif ==
    /\ At("read_raw_fif")
    /\ raw' = [kind |-> "Raw", sub |-> 0, filtered |-> FALSE]
    /\ Advance
    /\ UNCHANGED <<deleted, events, epochs, xdVars, sub, ica, invVars,
                   listVars, viewers>>

raw_filter ==
    /\ At("raw_filter") /\ raw.kind = "Raw"
    /\ raw' = [raw EXCEPT !.filtered = TRUE]
    /\ Advance
    /\ UNCHANGED <<deleted, events, epochs, xdVars, sub, ica, invVars,
                   listVars, viewers>>

read_events ==
    /\ At("read_events")
    /\ events' = eventFile
    /\ Advance
    /\ UNCHANGED <<deleted, raw, epochs, xdVars, sub, ica, invVars,
                   listVars, viewers>>

\* epochs = Epochs(raw, events, event_id, ..., preload=True): the matching
\* events, less whatever the library drops while loading
Epochs ==
    /\ At("Epochs") /\ raw.kind = "Raw"
    /\ LET sel == MatchEvents(events, xdawn_event_id)
       IN  \E K \in SUBSET (1..Len(sel)) :
              epochs' = NewEpochs(0, KeepIdx(sel, K, 1), xdawn_event_id, raw)
    /\ Advance
    /\ UNCHANGED <<deleted, raw, events, xdVars, sub, ica, invVars,
                   listVars, viewers>>

plot_epochs_image_before ==
    /\ At("plot_epochs_image_before") /\ epochs.kind = "Epochs"
    /\ shown' = Append(shown, [fn |-> pc, data |-> Select(epochs, "vis_r")])
    /\ Advance
    /\ UNCHANGED <<deleted, raw, events, epochs, xd, epochs_denoised, sub,
                   ica, invVars, listVars, viewers>>

Xdawn ==
    /\ At("Xdawn")
    /\ xd' = NewXdawn
    /\ Advance
    /\ UNCHANGED <<deleted, raw, events, epochs, epochs_denoised, shown, sub,
                   ica, invVars, listVars, viewers>>

xd_fit ==
    /\ At("xd_fit") /\ xd.kind = "Xdawn" /\ epochs.kind = "Epochs"
    /\ xd' = [xd EXCEPT !.fitted = TRUE, !.event_id_ = epochs.event_id]
    /\ Advance
    /\ UNCHANGED <<deleted, raw, events, epochs, epochs_denoised, shown, sub,
                   ica, invVars, listVars, viewers>>

\* epochs_denoised = xd.apply(epochs); an unfitted instance raises instead
xd_apply ==
    /\ At("xd_apply") /\ xd.kind = "Xdawn" /\ xd.fitted
    /\ epochs.kind = "Epochs"
    /\ epochs_denoised' = XdawnApply(xd, epochs, NoInclude)
    /\ Advance
    /\ UNCHANGED <<deleted, raw, events, epochs, xd, shown, sub, ica,
                   invVars, listVars, viewers>>

plot_epochs_image_after ==
    /\ At("plot_epochs_image_after") /\ epochs_denoised # None
    /\ shown' = Append(shown, [fn |-> pc,
                               data |-> epochs_denoised["vis_r"].codes])
    /\ Advance
    /\ UNCHANGED <<deleted, raw, events, epochs, xd, epochs_denoised, sub,
                   ica, invVars, listVars, viewers>>

XdawnNext ==
    \/ read_raw_fif \/ raw_filter \/ read_events \/ Epochs
    \/ plot_epochs_image_before \/ Xdawn \/ xd_fit \/ xd_apply
    \/ plot_epochs_image_after

\* -------------------------------------------- volume_stc_group_study.py
\* mne.minimum_norm.make_inverse_operator(epochs.info, fwd, cov)
MakeInverseOperator(ep, cov) ==
    [kind |-> "InverseOperator", sub |-> ep.sub, cov |-> cov]

\* the operator apply_inverse_tfr_epochs uses at frequency f: the f-th of a
\* list of operators, or the one operator it was given
OperatorAt(op, f) == IF op.kind = "list" THEN op.items[f + 1] ELSE op

\* mne.minimum_norm.apply_inverse_tfr_epochs(epochs_tfr, inverse_operator, ...)
ApplyInverseTfrEpochs(tfr, op) ==
    [kind |-> "SourceEstimates", of |-> "tfr", sub |-> tfr.sub,
     invop |-> [f \in 0 .. (tfr.nfreqs - 1) |-> OperatorAt(op, f)]]

\* mne.minimum_norm.apply_inverse_epochs(epochs, inverse_operator, ...)
ApplyInverseEpochs(ep, op) ==
    [kind |-> "SourceEstimates", of |-> "epochs", sub |-> ep.sub,
     invop |-> op]

\* view_vol_stc(stcs_epochs, ..., inst=insts_tfr, ...)
ViewArgs1Crossed == [stcs |-> stcs_epochs, inst |-> insts_tfr]

\* view_vol_stc(stcs_epochs, group=True, ..., inst=insts_epochs, ...)
ViewArgs1 == [stcs |-> stcs_epochs, inst |-> insts_epochs]

\* view_vol_stc(stcs_tfr, group="power", ..., inst=insts_tfr, ...)
ViewArgs2 == [stcs |-> stcs_tfr, inst |-> insts_tfr]

init_lists ==
    /\ At("init_lists")
    /\ stcs_tfr' = <<>> /\ stcs_epochs' = <<>>
    /\ insts_tfr' = <<>> /\ insts_epochs' = <<>>
    /\ Advance
    /\ UNCHANGED <<deleted, raw, events, epochs, xdVars, sub, ica, invVars,
                   viewers>>

\* for sub in range(1, 4)
for_sub ==
    /\ At("for_sub")
    /\ IF sub < NSubjects
         THEN sub' = sub + 1 /\ pc' = SubjectBody[1]
         ELSE sub' = sub /\ pc' = GroupTail[1]
    /\ log' = Append(log, [fn |-> pc, sub |-> sub'])
    /\ UNCHANGED <<script, eventFile, err, deleted, raw, events, epochs,
                   xdVars, ica, invVars, listVars, viewers>>

read_raw ==
    /\ At("read_raw")
    /\ raw' = [kind |-> "Raw", sub |-> sub, filtered |-> FALSE]
    /\ Advance
    /\ UNCHANGED <<deleted, events, epochs, xdVars, sub, ica, invVars,
                   listVars, viewers>>

g_Epochs ==
    /\ At("g_Epochs") /\ raw.kind = "Raw"
    /\ epochs' = NewEpochs(raw.sub, <<>>, group_event_id, raw)
    /\ Advance
    /\ UNCHANGED <<deleted, raw, events, xdVars, sub, ica, invVars,
                   listVars, viewers>>

del_raw ==
    /\ At("del_raw")
    /\ raw' = None
    /\ Advance
    /\ UNCHANGED <<deleted, events, epochs, xdVars, sub, ica, invVars,
                   listVars, viewers>>

epochs_filter ==
    /\ At("epochs_filter") /\ epochs.kind = "Epochs"
    /\ epochs' = [epochs EXCEPT !.filtered = TRUE]
    /\ Advance
    /\ UNCHANGED <<deleted, raw, events, xdVars, sub, ica, invVars,
                   listVars, viewers>>

ICA ==
    /\ At("ICA")
    /\ ica' = [kind |-> "ICA", sub |-> sub, fitted |-> FALSE,
               applied |-> FALSE]
    /\ Advance
    /\ UNCHANGED <<deleted, raw, events, epochs, xdVars, sub, invVars,
                   listVars, viewers>>

ica_fit ==
    /\ At("ica_fit") /\ ica.kind = "ICA" /\ epochs.kind = "Epochs"
    /\ ica' = [ica EXCEPT !.fitted = TRUE]
    /\ Advance
    /\ UNCHANGED <<deleted, raw, events, epochs, xdVars, sub, invVars,
                   listVars, viewers>>

\* ica.apply(epochs, exclude=...) cleans epochs in place; an unfitted ICA
\* raises instead
ica_apply ==
    /\ At("ica_apply") /\ ica.kind = "ICA" /\ ica.fitted
    /\ epochs.kind = "Epochs"
    /\ ica' = [ica EXCEPT !.applied = TRUE]
    /\ epochs' = [epochs EXCEPT !.cleaned = TRUE]
    /\ Advance
    /\ UNCHANGED <<deleted, raw, events, xdVars, sub, invVars, listVars,
                   viewers>>

tfr_morlet ==
    /\ At("tfr_morlet") /\ epochs.kind = "Epochs"
    /\ epochs_tfr' = [kind |-> "EpochsTFR", sub |-> epochs.sub,
                      nfreqs |-> NFreqs, decimated |-> FALSE]
    /\ Advance
    /\ UNCHANGED <<deleted, raw, events, epochs, xdVars, sub, ica,
                   baseline_csd, baseline_cov, inverse_operator, freq_it,
                   freq_idx, stcs, listVars, viewers>>

csd_tfr ==
    /\ At("csd_tfr") /\ epochs_tfr.kind = "EpochsTFR"
    /\ baseline_csd' = [kind |-> "CSD", sub |-> epochs_tfr.sub,
                        nfreqs |-> epochs_tfr.nfreqs]
    /\ Advance
    /\ UNCHANGED <<deleted, raw, events, epochs, xdVars, sub, ica,
                   epochs_tfr, baseline_cov, inverse_operator, freq_it,
                   freq_idx, stcs, listVars, viewers>>

tfr_decimate ==
    /\ At("tfr_decimate") /\ epochs_tfr.kind = "EpochsTFR"
    /\ epochs_tfr' = [epochs_tfr EXCEPT !.decimated = TRUE]
    /\ Advance
    /\ UNCHANGED <<deleted, raw, events, epochs, xdVars, sub, ica,
                   baseline_csd, baseline_cov, inverse_operator, freq_it,
                   freq_idx, stcs, listVars, viewers>>

append_insts_tfr ==
    /\ At("append_insts_tfr")
    /\ insts_tfr' = Append(insts_tfr, epochs_tfr)
    /\ Advance
    /\ UNCHANGED <<deleted, raw, events, epochs, xdVars, sub, ica, invVars,
                   stcs_tfr, stcs_epochs, insts_epochs, viewers>>

epochs_decimate ==
    /\ At("epochs_decimate") /\ epochs.kind = "Epochs"
    /\ epochs' = [epochs EXCEPT !.decimated = TRUE]
    /\ Advance
    /\ UNCHANGED <<deleted, raw, events, xdVars, sub, ica, invVars,
                   listVars, viewers>>

append_insts_epochs ==
    /\ At("append_insts_epochs")
    /\ insts_epochs' = Append(insts_epochs, epochs)
    /\ Advance
    /\ UNCHANGED <<deleted, raw, events, epochs, xdVars, sub, ica, invVars,
                   stcs_tfr, stcs_epochs, insts_tfr, viewers>>

compute_covariance ==
    /\ At("compute_covariance") /\ epochs.kind = "Epochs"
    /\ baseline_cov' = [kind |-> "Covariance", sub |-> epochs.sub,
                        from |-> "epochs", freq |-> -1, real |-> TRUE]
    /\ Advance
    /\ UNCHANGED <<deleted, raw, events, epochs, xdVars, sub, ica,
                   epochs_tfr, baseline_csd, inverse_operator, freq_it,
                   freq_idx, stcs, listVars, viewers>>

make_inverse_operator ==
    /\ At("make_inverse_operator") /\ baseline_cov.kind = "Covariance"
    /\ inverse_operator' = MakeInverseOperator(epochs, baseline_cov)
    /\ Advance
    /\ UNCHANGED <<deleted, raw, events, epochs, xdVars, sub, ica,
                   epochs_tfr, baseline_csd, baseline_cov, freq_it, freq_idx,
                   stcs, listVars, viewers>>

append_stcs_epochs ==
    /\ At("append_stcs_epochs")
    /\ inverse_operator.kind = "InverseOperator"
    /\ stcs_epochs' = Append(stcs_epochs,
                             ApplyInverseEpochs(epochs, inverse_operator))
    /\ Advance
    /\ UNCHANGED <<deleted, raw, events, epochs, xdVars, sub, ica, invVars,
                   stcs_tfr, insts_tfr, insts_epochs, viewers>>

stcs_list ==
    /\ At("stcs_list")
    /\ stcs' = [kind |-> "list", items |-> <<>>]
    /\ Advance
    /\ UNCHANGED <<deleted, raw, events, epochs, xdVars, sub, ica,
                   epochs_tfr, baseline_csd, baseline_cov, inverse_operator,
                   freq_it, freq_idx, listVars, viewers>>

\* range(epochs_tfr.freqs.size): a fresh iterator
iter_freqs ==
    /\ At("iter_freqs")
    /\ freq_it' = 0
    /\ Advance
    /\ UNCHANGED <<deleted, raw, events, epochs, xdVars, sub, ica,
                   epochs_tfr, baseline_csd, baseline_cov, inverse_operator,
                   freq_idx, stcs, listVars, viewers>>

\* for freq_idx in <iterator>
for_freq ==
    /\ At("for_freq")
    /\ IF freq_it < epochs_tfr.nfreqs
         THEN /\ freq_idx' = freq_it /\ freq_it' = freq_it + 1
              /\ pc' = FreqBody[1]
         ELSE /\ UNCHANGED <<freq_idx, freq_it>>
              /\ pc' = AfterFreq[1]
    /\ log' = Append(log, [fn |-> pc, sub |-> sub])
    /\ UNCHANGED <<script, eventFile, err, deleted, raw, events, epochs,
                   xdVars, sub, ica, epochs_tfr, baseline_csd, baseline_cov,
                   inverse_operator, stcs, listVars, viewers>>

get_data ==
    /\ At("get_data") /\ baseline_csd.kind = "CSD"
    /\ baseline_cov' = [kind |-> "Covariance", sub |-> baseline_csd.sub,
                        from |-> "csd", freq |-> freq_idx, real |-> FALSE]
    /\ Advance
    /\ UNCHANGED <<deleted, raw, events, epochs, xdVars, sub, ica,
                   epochs_tfr, baseline_csd, inverse_operator, freq_it,
                   freq_idx, stcs, listVars, viewers>>

real ==
    /\ At("real") /\ baseline_cov.kind = "Covariance"
    /\ baseline_cov' = [baseline_cov EXCEPT !.real = TRUE]
    /\ Advance
    /\ UNCHANGED <<deleted, raw, events, epochs, xdVars, sub, ica,
                   epochs_tfr, baseline_csd, inverse_operator, freq_it,
                   freq_idx, stcs, listVars, viewers>>

make_inverse_operator_freq ==
    /\ At("make_inverse_operator_freq") /\ baseline_cov.kind = "Covariance"
    /\ inverse_operator' = MakeInverseOperator(epochs, baseline_cov)
    /\ Advance
    /\ UNCHANGED <<deleted, raw, events, epochs, xdVars, sub, ica,
                   epochs_tfr, baseline_csd, baseline_cov, freq_it, freq_idx,
                   stcs, listVars, viewers>>

apply_inverse_tfr_epochs ==
    /\ At("apply_inverse_tfr_epochs")
    /\ epochs_tfr.kind = "EpochsTFR"
    /\ inverse_operator.kind \in {"InverseOperator", "list"}
    /\ stcs' = ApplyInverseTfrEpochs(epochs_tfr, inverse_operator)
    /\ Advance
    /\ UNCHANGED <<deleted, raw, events, epochs, xdVars, sub, ica,
                   epochs_tfr, baseline_csd, baseline_cov, inverse_operator,
                   freq_it, freq_idx, listVars, viewers>>

append_stcs_tfr ==
    /\ At("append_stcs_tfr")
    /\ stcs_tfr' = Append(stcs_tfr, stcs)
    /\ Advance
    /\ UNCHANGED <<deleted, raw, events, epochs, xdVars, sub, ica, invVars,
                   stcs_epochs, insts_tfr, insts_epochs, viewers>>

view_vol_stc_1 ==
    /\ At("view_vol_stc_1")
    /\ {"stcs_epochs", "insts_epochs"} \cap deleted = {}
    /\ viewers' = Append(viewers, ViewArgs1)
    /\ Advance
    /\ UNCHANGED <<deleted, raw, events, epochs, xdVars, sub, ica, invVars,
                   listVars>>

\* del stcs_epochs, insts_epochs
del_epochs_lists ==
    /\ At("del_epochs_lists")
    /\ deleted' = deleted \cup {"stcs_epochs", "insts_epochs"}
    /\ stcs_epochs' = <<>> /\ insts_epochs' = <<>>
    /\ Advance
    /\ UNCHANGED <<raw, events, epochs, xdVars, sub, ica, invVars, stcs_tfr,
                   insts_tfr, viewers>>

view_vol_stc_2 ==
    /\ At("view_vol_stc_2")
    /\ {"stcs_tfr", "insts_tfr"} \cap deleted = {}
    /\ viewers' = Append(viewers, ViewArgs2)
    /\ Advance
    /\ UNCHANGED <<deleted, raw, events, epochs, xdVars, sub, ica, invVars,
                   listVars>>

\* del stcs_tfr, insts_tfr
del_tfr_lists ==
    /\ At("del_tfr_lists")
    /\ deleted' = deleted \cup {"stcs_tfr", "insts_tfr"}
    /\ stcs_tfr' = <<>> /\ insts_tfr' = <<>>
    /\ Advance
    /\ UNCHANGED <<raw, events, epochs, xdVars, sub, ica, invVars,
                   stcs_epochs, insts_epochs, viewers>>

GroupNext ==
    \/ init_lists \/ for_sub \/ read_raw \/ g_Epochs \/ del_raw
    \/ epochs_filter \/ ICA \/ ica_fit \/ ica_apply \/ tfr_morlet \/ csd_tfr
    \/ tfr_decimate \/ append_insts_tfr \/ epochs_decimate
    \/ append_insts_epochs \/ compute_covariance \/ make_inverse_operator
    \/ append_stcs_epochs \/ stcs_list \/ iter_freqs \/ for_freq \/ get_data
    \/ real \/ make_inverse_operator_freq \/ apply_inverse_tfr_epochs
    \/ append_stcs_tfr \/ view_vol_stc_1 \/ del_epochs_lists
    \/ view_vol_stc_2 \/ del_tfr_lists

Next == XdawnNext \/ GroupNext \/ LibraryCall \/ Raise

Spec == Init /\ [][Next]_vars

\* ================================================================ claims
LoadCalls   == {"read_raw_fif", "read_raw"}
FilterCalls == {"raw_filter", "epochs_filter"}
EpochCalls  == {"Epochs", "g_Epochs"}
FitCalls    == {"xd_fit", "ica_fit"}
ApplyCalls  == {"xd_apply", "ica_apply"}
ResultViews == {"plot_epochs_image_after", "view_vol_stc_1", "view_vol_stc_2"}

\* iterations of the running script (the xdawn script has the single
\* iteration 0)
Iterations == IF script = "xdawn" THEN {0} ELSE 1..NSubjects

\* a call from A completed before log entry i, in the iteration s
PrecededIn(A, i, s) ==
    \E j \in 1..(i - 1) : log[j].fn \in A /\ log[j].sub = s

Preceded(A, i) == PrecededIn(A, i, log[i].sub)

Called(A) == \E i \in DOMAIN log : log[i].fn \in A

\* ---- C1
\* C1 (as claimed): every time-frequency source estimate of a subject uses,
\* at each frequency index f, the inverse operator built from that subject's
\* baseline covariance of the same frequency f.
C1_OperatorPerFrequency ==
    \A k \in DOMAIN stcs_tfr : \A f \in 0..(NFreqs - 1) :
        LET op == stcs_tfr[k].invop[f]
        IN  /\ op.cov.from = "csd"
            /\ op.cov.freq = f
            /\ op.cov.sub = stcs_tfr[k].sub

\* ---- C2
InSubjectOrder(coll) ==
    /\ Len(coll) = NSubjects
    /\ \A k \in DOMAIN coll : coll[k].sub = k

\* C2: when the subject loop has finished each of the four collections holds
\* one entry per subject in subject order; every viewer call pairs the i-th
\* source estimate with the i-th inst of the same subject; the first viewer
\* gets (stcs_epochs, insts_epochs) and the second (stcs_tfr, insts_tfr).
C2_CollectionsAligned ==
    /\ pc = "view_vol_stc_1" =>
          /\ InSubjectOrder(stcs_epochs) /\ InSubjectOrder(insts_epochs)
          /\ InSubjectOrder(stcs_tfr) /\ InSubjectOrder(insts_tfr)
    /\ \A v \in DOMAIN viewers :
          /\ InSubjectOrder(viewers[v].stcs) /\ InSubjectOrder(viewers[v].inst)
          /\ \A i \in 1..NSubjects :
                /\ viewers[v].stcs[i].sub = viewers[v].inst[i].sub
                /\ viewers[v].stcs[i].kind = "SourceEstimates"
                /\ viewers[v].stcs[i].of = (IF v = 1 THEN "epochs" ELSE "tfr")
                /\ viewers[v].inst[i].kind =
                      (IF v = 1 THEN "Epochs" ELSE "EpochsTFR")
    /\ Len(viewers) <= 2

C2_Witness ==
    /\ script = "group" /\ Len(viewers) = 2
    /\ viewers[2].stcs[NSubjects].sub = NSubjects

\* ---- C3
\* C3 (as claimed): in both scripts, and within each subject's iteration of
\* the group study, the order is load, filter, epoch, fit, apply, visualize;
\* filtering precedes epoching and no transform is applied before its fit.
C3_Original ==
    \A i \in DOMAIN log :
        /\ log[i].fn \in FilterCalls => Preceded(LoadCalls, i)
        /\ log[i].fn \in EpochCalls => Preceded(FilterCalls, i)
        /\ log[i].fn \in FitCalls => Preceded(EpochCalls, i)
        /\ log[i].fn \in ApplyCalls => Preceded(FitCalls, i)
        /\ log[i].fn \in ResultViews =>
              \A s \in Iterations : PrecededIn(ApplyCalls, i, s)

\* C3 (amended): the order is load, filter, epoch, fit, apply, visualize in
\* xdawn_denoising.py; in each subject's iteration of
\* volume_stc_group_study.py it is load, epoch, filter (the filter is applied
\* to the epochs, the raw recording is never filtered), fit, apply, and the
\* viewers open after every subject's apply.  In both scripts the filter
\* precedes the fit and no transform is applied before its fit.
C3_Amended ==
    /\ \A i \in DOMAIN log :
        /\ log[i].fn \in FilterCalls => Preceded(LoadCalls, i)
        /\ log[i].fn \in EpochCalls => Preceded(LoadCalls, i)
        /\ (script = "xdawn" /\ log[i].fn \in EpochCalls)
              => Preceded(FilterCalls, i)
        /\ (script = "group" /\ log[i].fn \in FilterCalls)
              => Preceded(EpochCalls, i)
        /\ (script = "group" /\ log[i].fn \in EpochCalls)
              => ~Preceded(FilterCalls, i)
        /\ log[i].fn \in FitCalls =>
              Preceded(EpochCalls, i) /\ Preceded(FilterCalls, i)
        /\ log[i].fn \in ApplyCalls => Preceded(FitCalls, i)
        /\ log[i].fn \in ResultViews =>
              \A s \in Iterations : PrecededIn(ApplyCalls, i, s)
    /\ epochs.kind = "Epochs" =>
          (epochs.raw_filtered <=> script = "xdawn")
    /\ (xd.kind = "Xdawn" /\ xd.fitted) => epochs.raw_filtered
    /\ (ica.kind = "ICA" /\ ica.fitted /\ ica.sub = epochs.sub)
          => epochs.filtered
    /\ (epochs.kind = "Epochs" /\ epochs.cleaned)
          => ica.fitted /\ ica.sub = epochs.sub

C3_Witness ==
    /\ script = "group" /\ pc = "done"
    /\ Called({"epochs_filter"}) /\ Called({"ica_apply"})
    /\ Called({"view_vol_stc_2"})

\* ---- C4
\* C4: the denoised epochs are rebuilt from exactly the XDAWN components 0
\* and 1: the instance has n_components = 2, it was fitted before apply ran,
\* and apply ran on that instance without overriding the retained components.
C4_FirstTwoComponents ==
    Called({"xd_apply"}) =>
        /\ xd.n_components = 2 /\ xd.fitted
        /\ \A n \in DOMAIN epochs_denoised :
              /\ epochs_denoised[n].kept = {0, 1}
              /\ epochs_denoised[n].fitted_at_apply
        /\ \A i \in DOMAIN log :
              log[i].fn = "xd_apply" => Preceded({"xd_fit"}, i)

C4_Witness ==
    /\ script = "xdawn" /\ Called({"xd_apply"})
    /\ epochs_denoised["vis_r"].codes # <<>>

\* ---- C5
LoopLabels ==
    Range(GroupHead) \cup Range(SubjectBody) \cup Range(FreqBody)
      \cup Range(AfterFreq) \cup {"for_sub", "for_freq"}

Position(seq, l) == CHOOSE j \in DOMAIN seq : seq[j] = l

\* C5: a raising call ends the script at that call and nothing after it
\* runs; a failure while a subject is processed means no viewer is opened and
\* no partly filled collection reaches view_vol_stc; a failure in fit means
\* apply and the second plot never run.
C5_NoRecovery ==
    /\ err # "" => pc = "failed"
    /\ err \in LoopLabels =>
          viewers = <<>> /\ ~Called(Range(GroupTail))
    /\ \A v \in DOMAIN viewers :
          Len(viewers[v].stcs) = NSubjects /\ Len(viewers[v].inst) = NSubjects
    /\ err \in Range(GroupTail) =>
          \A i \in DOMAIN log : log[i].fn \in Range(GroupTail) =>
              Position(GroupTail, log[i].fn) < Position(GroupTail, err)
    /\ err \in Range(XdawnScript) =>
          \A i \in DOMAIN log :
              Position(XdawnScript, log[i].fn) < Position(XdawnScript, err)
    /\ err = "xd_fit" =>
          /\ epochs_denoised = None /\ Len(shown) <= 1
          /\ ~Called({"xd_apply", "plot_epochs_image_after"})

C5_Witness ==
    \/ err = "xd_fit" /\ pc = "failed" /\ Len(shown) = 1
    \/ err = "ica_fit" /\ pc = "failed" /\ sub = 2 /\ Len(stcs_tfr) = 1

\* ---- C6
\* C6: whatever the event file holds, every epoch of the xdawn script comes
\* from an event with code 4, so epochs["vis_r"] is all of the epochs, before
\* and after denoising.
C6_OnlyVisR ==
    script = "xdawn" =>
        /\ epochs.kind = "Epochs" =>
              \A i \in DOMAIN epochs.codes : epochs.codes[i] = 4
        /\ \A k \in DOMAIN shown : shown[k].data = epochs.codes
        /\ Called({"xd_apply"}) =>
              /\ DOMAIN epochs_denoised = {"vis_r"}
              /\ epochs_denoised["vis_r"].codes = epochs.codes

C6_Witness ==
    /\ script = "xdawn" /\ Len(shown) = 2
    /\ \E i \in DOMAIN eventFile : eventFile[i] # 4
    /\ \E i \in DOMAIN eventFile : eventFile[i] = 4
    /\ shown[2].data # <<>>

====
